---- MODULE Spec2Model ----
(***************************************************************************)
(* A model of app.py: the Streamlit image generator.  A session is the     *)
(* st.session_state of one browser tab; every user event (a widget's       *)
(* on_change callback, a click on "Generate Image") runs the script once,  *)
(* from top to bottom.  Python strings are sequences of one-character      *)
(* strings, so that strip, lower, replace, join and the f-strings are      *)
(* computed character by character; Python's None is the empty sequence    *)
(* and a value v that may be None is <<v>>.                                *)
(***************************************************************************)
EXTENDS Integers, Sequences, FiniteSets, TLC

VARIABLES
    ss,        \* st.session_state of every session
    env,       \* the process environment's STABILITY_API_KEY: <<>> unset, <<v>> set to v
    run,       \* what the most recent script run of every session did
    origin,    \* for every session, the number of the submission that wrote prompt / generated_image
    nEdits,    \* edit events so far, per session
    nSubmits   \* clicks on "Generate Image" so far, per session

vars == <<ss, env, run, origin, nEdits, nSubmits>>

(***************************************************************************)
(* Bounds of the model.                                                    *)
(***************************************************************************)
MaxEdits == 2
MaxSubmits == 2

Sessions == {"s1", "s2"}
MainSession == "s1"

(***************************************************************************)
(* String literals of app.py.                                              *)
(***************************************************************************)
Realistic == <<"R", "e", "a", "l", "i", "s", "t", "i", "c">>
OilPainting == <<"O", "i", "l", " ", "P", "a", "i", "n", "t", "i", "n", "g">>
Anime == <<"A", "n", "i", "m", "e">>
Watercolor == <<"W", "a", "t", "e", "r", "c", "o", "l", "o", "r">>
Cyberpunk == <<"C", "y", "b", "e", "r", "p", "u", "n", "k">>
PixelArt == <<"P", "i", "x", "e", "l", " ", "A", "r", "t">>
Surrealist == <<"S", "u", "r", "r", "e", "a", "l", "i", "s", "t">>
Renaissance == <<"R", "e", "n", "a", "i", "s", "s", "a", "n", "c", "e">>
Low == <<"L", "o", "w">>
Medium == <<"M", "e", "d", "i", "u", "m">>
High == <<"H", "i", "g", "h">>
UltraHD == <<"U", "l", "t", "r", "a", " ", "H", "D">>
LightingNone == <<"N", "o", "n", "e">>
Cinematic == <<"C", "i", "n", "e", "m", "a", "t", "i", "c">>
GoldenHour == <<"G", "o", "l", "d", "e", "n", " ", "H", "o", "u", "r">>
Neon == <<"N", "e", "o", "n">>
Studio == <<"S", "t", "u", "d", "i", "o">>
Moody == <<"M", "o", "o", "d", "y">>

StyleOptions ==
    {Realistic, OilPainting, Anime, Watercolor, Cyberpunk, PixelArt, Surrealist, Renaissance}
QualityOptions == {Low, Medium, High, UltraHD}
LightingOptions == {LightingNone, Cinematic, GoldenHour, Neon, Studio, Moody}

SliderMin == 512
SliderMax == 1024
SliderStep == 64
SliderValues == {v \in SliderMin..SliderMax : (v - SliderMin) % SliderStep = 0}
DefaultSize == 768

StyleSuffix == <<" ", "s", "t", "y", "l", "e">>
LightingSuffix == <<" ", "l", "i", "g", "h", "t", "i", "n", "g">>
ArtistPrefix == <<"i", "n", " ", "t", "h", "e", " ", "s", "t", "y", "l", "e", " ", "o", "f", " ">>
Separator == <<",", " ">>
NegativePrefix == <<"N", "e", "g", "a", "t", "i", "v", "e", ":", " ">>
NegativeNone == <<"N", "e", "g", "a", "t", "i", "v", "e", ":", " ", "N", "o", "n", "e">>
NegativeNoneLower == <<"n", "e", "g", "a", "t", "i", "v", "e", ":", " ", "n", "o", "n", "e">>
BearerPrefix == <<"B", "e", "a", "r", "e", "r", " ">>
DefaultKey == <<" ">>
MsgNoKey == <<"A", "P", "I", " ", "k", "e", "y", " ", "n", "o", "t", " ", "c", "o", "n", "f", "i", "g", "u", "r", "e", "d">>
MsgEmptyPrompt == <<"P", "r", "o", "m", "p", "t", " ", "c", "a", "n", "n", "o", "t", " ", "b", "e", " ", "e", "m", "p", "t", "y">>
MsgApiError == <<"A", "P", "I", " ", "E", "r", "r", "o", "r", ":", " ">>
MsgNetworkError == <<"N", "e", "t", "w", "o", "r", "k", " ", "E", "r", "r", "o", "r", ":", " ">>
MsgNoSubject == <<"P", "l", "e", "a", "s", "e", " ", "e", "n", "t", "e", "r", " ", "a", " ", "m", "a", "i", "n", " ", "s", "u", "b", "j", "e", "c", "t">>

CfgScale == 7
Samples == 1
Steps == 30
StatusOk == 200

(***************************************************************************)
(* Python values and string methods.                                       *)
(***************************************************************************)
PyNone == <<>>
Some(v) == <<v>>
EmptyStr == <<>>

\* bool(s) of a str: the empty string is false
Truthy(s) == s # EmptyStr

\* bool(x) of a value that is None or a str
TruthyOpt(x) == x # PyNone /\ Truthy(x[1])

Whitespace == {" ", "\t", "\n", "\r"}

RECURSIVE LStrip(_)
LStrip(s) ==
    IF s # <<>> /\ Head(s) \in Whitespace THEN LStrip(Tail(s)) ELSE s

RECURSIVE RStrip(_)
RStrip(s) ==
    IF s # <<>> /\ s[Len(s)] \in Whitespace THEN RStrip(SubSeq(s, 1, Len(s) - 1)) ELSE s

\* str.strip()
Strip(s) == RStrip(LStrip(s))

UpperCase ==
    <<"A", "B", "C", "D", "E", "F", "G", "H", "I", "J", "K", "L", "M",
      "N", "O", "P", "Q", "R", "S", "T", "U", "V", "W", "X", "Y", "Z">>
LowerCase ==
    <<"a", "b", "c", "d", "e", "f", "g", "h", "i", "j", "k", "l", "m",
      "n", "o", "p", "q", "r", "s", "t", "u", "v", "w", "x", "y", "z">>

LowerChar(c) ==
    IF \E i \in 1..Len(UpperCase) : UpperCase[i] = c
    THEN LowerCase[CHOOSE i \in 1..Len(UpperCase) : UpperCase[i] = c]
    ELSE c

\* str.lower()
Lower(s) == [i \in 1..Len(s) |-> LowerChar(s[i])]

\* str.replace(old, ""): every non-overlapping occurrence, leftmost first
RECURSIVE Remove(_, _)
Remove(s, old) ==
    IF Len(s) < Len(old) THEN s
    ELSE IF SubSeq(s, 1, Len(old)) = old
         THEN Remove(SubSeq(s, Len(old) + 1, Len(s)), old)
         ELSE <<Head(s)>> \o Remove(Tail(s), old)

\* sep.join(parts)
RECURSIVE Join(_, _)
Join(sep, parts) ==
    IF parts = <<>> THEN EmptyStr
    ELSE IF Len(parts) = 1 THEN parts[1]
    ELSE parts[1] \o sep \o Join(sep, Tail(parts))

\* os.getenv(name, default)
GetEnv(e, default) == IF e = <<>> THEN default ELSE e[1]

(***************************************************************************)
(* generate_prompt                                                         *)
(***************************************************************************)
\* generate_prompt with the keywords appended before the style
generate_prompt_keywords_first(keywords, style, quality, lighting, artist, negative) ==
    LET c1 == IF Truthy(quality) THEN <<quality>> ELSE <<>>
        c2 == Append(c1, keywords)
        c3 == IF Truthy(style) THEN Append(c2, style \o StyleSuffix) ELSE c2
        c4 == IF Truthy(lighting) /\ lighting # LightingNone
              THEN Append(c3, lighting \o LightingSuffix) ELSE c3
        c5 == IF Truthy(artist) THEN Append(c4, ArtistPrefix \o artist) ELSE c4
    IN  [prompt |-> Join(Separator, c5),
         negative_prompt |-> IF Truthy(negative)
                             THEN NegativePrefix \o negative
                             ELSE NegativeNone]

\* generate_prompt without the test lighting != "None" of line 34
generate_prompt_any_lighting(keywords, style, quality, lighting, artist, negative) ==
    LET c1 == IF Truthy(quality) THEN <<quality>> ELSE <<>>
        c2 == IF Truthy(style) THEN Append(c1, style \o StyleSuffix) ELSE c1
        c3 == Append(c2, keywords)
        c4 == IF Truthy(lighting)
              THEN Append(c3, lighting \o LightingSuffix) ELSE c3
        c5 == IF Truthy(artist) THEN Append(c4, ArtistPrefix \o artist) ELSE c4
    IN  [prompt |-> Join(Separator, c5),
         negative_prompt |-> IF Truthy(negative)
                             THEN NegativePrefix \o negative
                             ELSE NegativeNone]

generate_prompt(keywords, style, quality, lighting, artist, negative) ==
    LET c1 == IF Truthy(quality) THEN <<quality>> ELSE <<>>
        c2 == IF Truthy(style) THEN Append(c1, style \o StyleSuffix) ELSE c1
        c3 == Append(c2, keywords)
        c4 == IF Truthy(lighting) /\ lighting # LightingNone
              THEN Append(c3, lighting \o LightingSuffix) ELSE c3
        c5 == IF Truthy(artist) THEN Append(c4, ArtistPrefix \o artist) ELSE c4
    IN  [prompt |-> Join(Separator, c5),
         negative_prompt |-> IF Truthy(negative)
                             THEN NegativePrefix \o negative
                             ELSE NegativeNone]

(***************************************************************************)
(* The provider: what one requests.post to the text-to-image endpoint can  *)
(* come back with.  kind "fault" is a requests.exceptions.RequestException *)
(* (timeout, DNS, connection reset); otherwise a status and a body, the    *)
(* body described by what response.json() makes of it.                     *)
(***************************************************************************)
Img1 == <<"Q", "Q", "=", "=">>
Img2 == <<"Q", "g", "=", "=">>
ProviderMessage == <<"b", "a", "d", " ", "s", "i", "z", "e">>
RawBody == <<"{", ".", ".", "}">>
RawTextBody == <<"B", "a", "d", " ", "G", "a", "t", "e", "w", "a", "y">>
FaultText == <<"t", "i", "m", "e", "d", " ", "o", "u", "t">>
JsonErrorText == <<"E", "x", "p", "e", "c", "t", "i", "n", "g", " ", "v", "a", "l", "u", "e">>

BlankResponse ==
    [kind |-> "http", status |-> StatusOk, isJson |-> FALSE, isObject |-> FALSE,
     hasArtifacts |-> FALSE, nArtifacts |-> 0, hasBase64 |-> FALSE, base64 |-> EmptyStr,
     hasMessage |-> FALSE, message |-> EmptyStr, text |-> RawTextBody]

JsonObject == [BlankResponse EXCEPT !.isJson = TRUE, !.isObject = TRUE, !.text = RawBody]

NetworkFault == [BlankResponse EXCEPT !.kind = "fault", !.status = 0, !.text = FaultText]
OkNotJson == BlankResponse
OkNotObject == [BlankResponse EXCEPT !.isJson = TRUE, !.text = RawBody]
OkNoArtifacts == JsonObject
OkEmptyArtifacts == [JsonObject EXCEPT !.hasArtifacts = TRUE]
OkNoBase64 == [JsonObject EXCEPT !.hasArtifacts = TRUE, !.nArtifacts = 1]
OkImage(payload) ==
    [JsonObject EXCEPT !.hasArtifacts = TRUE, !.nArtifacts = 1,
                       !.hasBase64 = TRUE, !.base64 = payload]
ErrWithMessage ==
    [JsonObject EXCEPT !.status = 400, !.hasMessage = TRUE, !.message = ProviderMessage]
ErrNoMessage == [JsonObject EXCEPT !.status = 401]
ErrNotJson == [BlankResponse EXCEPT !.status = 502]
ErrNotObject == [BlankResponse EXCEPT !.status = 500, !.isJson = TRUE, !.text = RawBody]

\* no POST was made
NoResponse == [BlankResponse EXCEPT !.kind = "none", !.status = 0, !.text = EmptyStr]

Responses ==
    {NetworkFault, OkNotJson, OkNotObject, OkNoArtifacts, OkEmptyArtifacts, OkNoBase64,
     OkImage(Img1), OkImage(Img2), OkImage(EmptyStr),
     ErrWithMessage, ErrNoMessage, ErrNotJson, ErrNotObject}

(***************************************************************************)
(* generate_with_stability.  key is the module's STABILITY_API_KEY, resp   *)
(* the provider's answer to the POST, and lib tells whether the installed  *)
(* requests raises a JSONDecodeError that is a RequestException (2.27 and  *)
(* later) or a plain ValueError (earlier).  The result tells what was      *)
(* returned or raised, the POSTs made and the st.error messages shown.     *)
(***************************************************************************)
NoException == "none"

Returned(ret, posts, errors) ==
    [ret |-> ret, raised |-> NoException, posts |-> posts, errors |-> errors]

Raised(exc, posts) ==
    [ret |-> PyNone, raised |-> exc, posts |-> posts, errors |-> <<>>]

\* lines 61-63
text_prompts(prompt, negative_prompt) ==
    LET positive == <<[text |-> prompt, weight |-> 1]>>
    IN  IF Truthy(negative_prompt) /\ Lower(negative_prompt) # NegativeNoneLower
        THEN Append(positive, [text |-> Remove(negative_prompt, NegativePrefix),
                               weight |-> -1])
        ELSE positive

\* lines 66-82: the request of the one requests.post
Request(prompt, negative_prompt, width, height, key) ==
    [text_prompts |-> text_prompts(prompt, negative_prompt),
     cfg_scale |-> CfgScale, height |-> height, width |-> width,
     samples |-> Samples, steps |-> Steps,
     authorization |-> BearerPrefix \o key]

\* lines 98-100 with one more POST before giving up
HandleFaultRetry(resp, posts) ==
    Returned(PyNone, posts \o posts, <<MsgNetworkError \o resp.text>>)

\* lines 98-100: requests.post raised a RequestException
HandleFault(resp, posts) ==
    Returned(PyNone, posts, <<MsgNetworkError \o resp.text>>)

\* lines 88-94 with the body's text always
error_msg_text(resp) == resp.text

\* lines 88-94: the text of a non-200 response, or the "message" of its JSON body
error_msg(resp) ==
    IF resp.isJson /\ resp.isObject /\ resp.hasMessage THEN resp.message ELSE resp.text

\* lines 84-100: what becomes of the response inside the try block
HandleResponse(resp, lib, posts) ==
    IF resp.kind = "fault"
    THEN HandleFault(resp, posts)
    ELSE IF resp.status = StatusOk
    THEN IF ~resp.isJson
         THEN IF lib THEN Returned(PyNone, posts, <<MsgNetworkError \o JsonErrorText>>)
                     ELSE Raised("JSONDecodeError", posts)
         ELSE IF ~resp.isObject THEN Raised("TypeError", posts)
         ELSE IF ~resp.hasArtifacts THEN Raised("KeyError", posts)
         ELSE IF resp.nArtifacts = 0 THEN Raised("IndexError", posts)
         ELSE IF ~resp.hasBase64 THEN Raised("KeyError", posts)
         ELSE Returned(Some(resp.base64), posts, <<>>)
    ELSE Returned(PyNone, posts, <<MsgApiError \o error_msg(resp)>>)

\* lines 50-52
KeyConfigured(key) == Truthy(key)

generate_with_stability(prompt, negative_prompt, width, height, key, resp, lib) ==
    IF ~KeyConfigured(key) THEN Returned(PyNone, <<>>, <<MsgNoKey>>)
    ELSE IF ~Truthy(prompt) \/ ~Truthy(Strip(prompt))
    THEN Returned(PyNone, <<>>, <<MsgEmptyPrompt>>)
    ELSE HandleResponse(resp, lib, <<Request(prompt, negative_prompt, width, height, key)>>)

(***************************************************************************)
(* The session: lines 12-24 run once, when 'generated' is not yet in       *)
(* st.session_state; the first run of main then creates the eight widgets, *)
(* whose values live in st.session_state under their keys (lines 130-175)  *)
(* and start as the value= / index= each widget is given.                  *)
(***************************************************************************)
\* lines 12-24 with a default width that is not on the slider's grid
InitialSessionStateOffGrid ==
    [generated |-> FALSE, generated_image |-> PyNone,
     prompt |-> EmptyStr, negative_prompt |-> EmptyStr,
     keywords |-> EmptyStr, style |-> Realistic, quality |-> High,
     lighting |-> LightingNone, artist |-> EmptyStr, negative |-> EmptyStr,
     width |-> 800, height |-> DefaultSize,
     keywords_input |-> EmptyStr, style_select |-> Realistic, quality_slider |-> High,
     lighting_radio |-> LightingNone, artist_input |-> EmptyStr,
     negative_input |-> EmptyStr,
     width_slider |-> 800, height_slider |-> DefaultSize]

InitialSessionState ==
    [generated |-> FALSE, generated_image |-> PyNone,
     prompt |-> EmptyStr, negative_prompt |-> EmptyStr,
     keywords |-> EmptyStr, style |-> Realistic, quality |-> High,
     lighting |-> LightingNone, artist |-> EmptyStr, negative |-> EmptyStr,
     width |-> DefaultSize, height |-> DefaultSize,
     keywords_input |-> EmptyStr, style_select |-> Realistic, quality_slider |-> High,
     lighting_radio |-> LightingNone, artist_input |-> EmptyStr,
     negative_input |-> EmptyStr,
     width_slider |-> DefaultSize, height_slider |-> DefaultSize]

\* line 9, evaluated by every script run
STABILITY_API_KEY == GetEnv(env, DefaultKey)

(***************************************************************************)
(* What the user can type into the three text widgets, and what the        *)
(* environment can hold.                                                   *)
(***************************************************************************)
KwLion == <<"l", "i", "o", "n">>
KwPaddedCat == <<" ", "c", "a", "t", "\t">>
KwBlank == <<" ", "\t">>
ArtistVanGogh == <<"V", "a", "n", " ", "G", "o", "g", "h">>
ArtistBlank == <<" ">>
NegBlurry == <<"b", "l", "u", "r", "r", "y">>
NegPadded == <<" ", "t", "e", "x", "t", " ", "\n">>
NegWordNone == <<"N", "o", "n", "e">>
NegWithPrefix == <<"N", "e", "g", "a", "t", "i", "v", "e", ":", " ", "h", "a", "n", "d", "s">>
KeySecret == <<"s", "k">>

KeywordsInputs == {EmptyStr, KwBlank, KwLion, KwPaddedCat}
ArtistInputs == {EmptyStr, ArtistBlank, ArtistVanGogh}
NegativeInputs == {EmptyStr, NegBlurry, NegPadded, NegWordNone, NegWithPrefix}
EnvValues == {PyNone, Some(EmptyStr), Some(KeySecret)}

\* the values the edit events of Spec pick: some of each widget's options
StyleInputs == {Realistic, OilPainting}
QualityInputs == {High, UltraHD}
LightingInputs == {LightingNone, Cinematic}
WidthInputs == {DefaultSize, SliderMax}
HeightInputs == {DefaultSize, DefaultSize + SliderStep}
NegativeEdits == {EmptyStr, NegBlurry, NegWordNone}

(***************************************************************************)
(* One script run, as the rest of the model sees it: the event that        *)
(* started it, how it ended ("completed": main returned; "stopped":        *)
(* st.stop(); "raised": an exception left main), the POSTs it made, the    *)
(* st.error messages it showed, whether generate_with_stability was called *)
(* and what it returned or raised, and lib: whether the run's requests     *)
(* raises JSON errors that are RequestExceptions; resp: what the provider   *)
(* answered to the run's POST.                                             *)
(***************************************************************************)
NoRun ==
    [event |-> "none", status |-> "completed", posts |-> <<>>, errors |-> <<>>,
     called |-> FALSE, ret |-> PyNone, raised |-> NoException, lib |-> TRUE,
     resp |-> NoResponse]

EditRun == [NoRun EXCEPT !.event = "edit"]

\* line 178 without the strip()
ValidKeywordsNoStrip(st) == Truthy(st.keywords)

\* line 178 without the test
ValidKeywordsAlways(st) == TRUE

\* line 178
ValidKeywords(st) == Truthy(Strip(st.keywords))

\* lines 183-190
ComposeFrom(st) ==
    generate_prompt(Strip(st.keywords), st.style, st.quality, st.lighting,
                    Strip(st.artist), Strip(st.negative))

\* lines 192-193
StorePrompt(st, pair) ==
    [st EXCEPT !.prompt = pair.prompt, !.negative_prompt = pair.negative_prompt]

\* lines 202-204 with an else branch that resets generated
StoreImageResets(st, image_data) ==
    IF TruthyOpt(image_data)
    THEN [st EXCEPT !.generated_image = image_data, !.generated = TRUE]
    ELSE [st EXCEPT !.generated = FALSE]

\* lines 202-204
StoreImage(st, image_data) ==
    IF TruthyOpt(image_data)
    THEN [st EXCEPT !.generated_image = image_data, !.generated = TRUE]
    ELSE st

\* lines 177-204: the click on "Generate Image".  state: the session's fields
\* after the run; run: what the run did; wrotePrompt, wroteImage: whether it
\* assigned prompt and negative_prompt (192-193) and generated_image (203)
SubmitOutcome(st, key, resp, lib) ==
    IF ~ValidKeywords(st)
    THEN [state |-> st,
          run |-> [NoRun EXCEPT !.event = "submit", !.status = "stopped",
                                !.errors = <<MsgNoSubject>>],
          wrotePrompt |-> FALSE, wroteImage |-> FALSE]
    ELSE LET pair == ComposeFrom(st)
             stored == StorePrompt(st, pair)
             g == generate_with_stability(pair.prompt, pair.negative_prompt,
                                          st.width, st.height, key, resp, lib)
             final == IF g.raised # NoException THEN stored ELSE StoreImage(stored, g.ret)
         IN  [state |-> final,
              run |-> [event |-> "submit",
                       status |-> IF g.raised # NoException THEN "raised" ELSE "completed",
                       posts |-> g.posts, errors |-> g.errors,
                       called |-> TRUE, ret |-> g.ret, raised |-> g.raised, lib |-> lib,
                       resp |-> IF g.posts # <<>> THEN resp ELSE NoResponse],
              wrotePrompt |-> TRUE,
              wroteImage |-> g.raised = NoException /\ TruthyOpt(g.ret)]

\* lines 209-240: the result panel shows the stored image and prompts
ShowsImage(st) == st.generated /\ TruthyOpt(st.generated_image)

(***************************************************************************)
(* Events.  An on_change callback writes its widget's value to the         *)
(* session (lines 130-175) and the script reruns with the button not       *)
(* clicked.                                                                *)
(***************************************************************************)
\* an on_change that writes nothing
on_change_nothing(st, field, key) == st

\* an on_change that also forgets the last result
on_change_resets_result(st, field, key) ==
    [st EXCEPT ![field] = st[key], !.generated = FALSE]

\* the lambdas of lines 134-175: setattr(st.session_state, field, st.session_state[key])
on_change(st, field, key) == [st EXCEPT ![field] = st[key]]

\* an edit that writes every session, as a module-level global would
EditShared(s, key, field, v) ==
    /\ nEdits[s] < MaxEdits
    /\ v # ss[s][key]
    /\ ss' = [t \in Sessions |-> on_change([ss[t] EXCEPT ![key] = v], field, key)]
    /\ run' = [run EXCEPT ![s] = EditRun]
    /\ nEdits' = [nEdits EXCEPT ![s] = @ + 1]
    /\ UNCHANGED <<env, origin, nSubmits>>

\* the user gives the widget `key` the value v; its on_change runs, then main
Edit(s, key, field, v) ==
    /\ nEdits[s] < MaxEdits
    /\ v # ss[s][key]
    /\ ss' = [ss EXCEPT ![s] = on_change([@ EXCEPT ![key] = v], field, key)]
    /\ run' = [run EXCEPT ![s] = EditRun]
    /\ nEdits' = [nEdits EXCEPT ![s] = @ + 1]
    /\ UNCHANGED <<env, origin, nSubmits>>

EditKeywords(s) == \E v \in KeywordsInputs : Edit(s, "keywords_input", "keywords", v)
EditStyle(s) == \E v \in StyleInputs : Edit(s, "style_select", "style", v)
EditQuality(s) == \E v \in QualityInputs : Edit(s, "quality_slider", "quality", v)
EditLighting(s) == \E v \in LightingInputs : Edit(s, "lighting_radio", "lighting", v)
EditArtist(s) == \E v \in ArtistInputs : Edit(s, "artist_input", "artist", v)
EditNegative(s) == \E v \in NegativeEdits : Edit(s, "negative_input", "negative", v)
EditWidth(s) == \E v \in WidthInputs : Edit(s, "width_slider", "width", v)
EditHeight(s) == \E v \in HeightInputs : Edit(s, "height_slider", "height", v)

\* lib matters only where response.json() fails on a 200 response
LibChoices(resp) ==
    IF resp.kind = "http" /\ resp.status = StatusOk /\ ~resp.isJson
    THEN BOOLEAN ELSE {TRUE}

SubmitWith(s, resp, lib) ==
    /\ nSubmits[s] < MaxSubmits
    /\ LET o == SubmitOutcome(ss[s], STABILITY_API_KEY, resp, lib)
           n == nSubmits[s] + 1
       IN  /\ ss' = [ss EXCEPT ![s] = o.state]
           /\ run' = [run EXCEPT ![s] = o.run]
           /\ origin' = [origin EXCEPT ![s] =
                            [prompt |-> IF o.wrotePrompt THEN n ELSE @.prompt,
                             image |-> IF o.wroteImage THEN n ELSE @.image]]
    /\ nSubmits' = [nSubmits EXCEPT ![s] = @ + 1]
    /\ UNCHANGED <<env, nEdits>>

Submit(s) == \E resp \in Responses : \E lib \in LibChoices(resp) : SubmitWith(s, resp, lib)

Init ==
    /\ ss = [s \in Sessions |-> InitialSessionState]
    /\ env \in EnvValues
    /\ run = [s \in Sessions |-> NoRun]
    /\ origin = [s \in Sessions |-> [prompt |-> 0, image |-> 0]]
    /\ nEdits = [s \in Sessions |-> 0]
    /\ nSubmits = [s \in Sessions |-> 0]

Next ==
    \/ EditKeywords(MainSession)
    \/ EditStyle(MainSession)
    \/ EditQuality(MainSession)
    \/ EditLighting(MainSession)
    \/ EditArtist(MainSession)
    \/ EditNegative(MainSession)
    \/ EditWidth(MainSession)
    \/ EditHeight(MainSession)
    \/ Submit(MainSession)

Spec == Init /\ [][Next]_vars

(***************************************************************************)
(* ComposeSpec: the session's six prompt fields hold any values the        *)
(* widgets can give them, and the user clicks "Generate Image"; the        *)
(* provider returns an image.                                              *)
(***************************************************************************)
ComposeInit ==
    /\ \E k \in KeywordsInputs, st \in StyleOptions, q \in QualityOptions,
          l \in LightingOptions, a \in ArtistInputs, n \in NegativeInputs :
          ss = [s \in Sessions |->
                  IF s = MainSession
                  THEN [InitialSessionState EXCEPT
                           !.keywords = k, !.style = st, !.quality = q,
                           !.lighting = l, !.artist = a, !.negative = n,
                           !.keywords_input = k, !.style_select = st,
                           !.quality_slider = q, !.lighting_radio = l,
                           !.artist_input = a, !.negative_input = n]
                  ELSE InitialSessionState]
    /\ env = Some(KeySecret)
    /\ run = [s \in Sessions |-> NoRun]
    /\ origin = [s \in Sessions |-> [prompt |-> 0, image |-> 0]]
    /\ nEdits = [s \in Sessions |-> 0]
    /\ nSubmits = [s \in Sessions |-> 0]

ComposeNext == SubmitWith(MainSession, OkImage(Img1), TRUE)

ComposeSpec == ComposeInit /\ [][ComposeNext]_vars

(***************************************************************************)
(* Properties.                                                             *)
(***************************************************************************)
ResultFields(st) == <<st.prompt, st.negative_prompt, st.generated_image, st.generated>>

\* the most recent run of s was a click on "Generate Image"
Submitted(s) == run[s].event = "submit"

\* ... and its generate_with_stability call returned a failure (None)
CallFailed(s) ==
    Submitted(s) /\ run[s].called /\ run[s].raised = NoException /\ run[s].ret = PyNone

\* the result panel of lines 209-240 was drawn by the most recent run, with an image
PanelShowsImage(s) == run[s].status = "completed" /\ ShowsImage(ss[s])

\* the environment holds a provider key
Configured == env = Some(KeySecret)

\* C1: whenever the result panel shows an image, the stored prompt pair and
\* the stored image were written by the same submission (stated for a
\* configured key: the violation does not need an unset one).
C1_PromptAndImageOfSameSubmission ==
    \A s \in Sessions :
        (Configured /\ PanelShowsImage(s)) => origin[s].prompt = origin[s].image

\* C2: after a submission that passed validation and whose provider call
\* returned a failure, the session no longer holds the image of an earlier
\* submission (stated for a configured key, as C1).
C2_FailureOverwritesResult ==
    \A s \in Sessions :
        (Configured /\ CallFailed(s)) => ss[s].generated_image = PyNone /\ ~ss[s].generated

\* C3: a submission whose keywords are empty or whitespace-only stops with the
\* validation message and no POST; and whenever a run has POSTed, the trimmed
\* keywords are non-empty, so is the positive prompt it sent, and the
\* adapter's "Prompt cannot be empty" was not shown.
C3_BlankKeywordsNeverDispatched ==
    \A s \in Sessions :
        /\ (Submitted(s) /\ Strip(ss[s].keywords) = EmptyStr)
              => /\ run[s].status = "stopped"
                 /\ run[s].errors = <<MsgNoSubject>>
                 /\ run[s].posts = <<>>
                 /\ ~run[s].called
        /\ run[s].posts # <<>>
              => /\ Strip(ss[s].keywords) # EmptyStr
                 /\ \A i \in 1..Len(run[s].posts) :
                        Strip(run[s].posts[i].text_prompts[1].text) # EmptyStr
        /\ Submitted(s) => \A i \in 1..Len(run[s].errors) : run[s].errors[i] # MsgEmptyPrompt

\* C3's witness: a whitespace-only keywords field was submitted and rejected
C3_Witness ==
    /\ Submitted(MainSession)
    /\ ss[MainSession].keywords = KwBlank
    /\ run[MainSession].status = "stopped"

\* C4: a click on "Generate Image" with empty or whitespace-only keywords
\* leaves prompt, negative_prompt, generated_image and generated as they were.
C4_RejectedSubmissionKeepsResult ==
    [][\A s \in Sessions :
          (nSubmits'[s] # nSubmits[s] /\ Strip(ss[s].keywords) = EmptyStr)
             => ResultFields(ss'[s]) = ResultFields(ss[s])]_vars

\* C4's witness: a rejected submission after an earlier successful one
C4_Witness ==
    /\ Submitted(MainSession)
    /\ run[MainSession].status = "stopped"
    /\ ShowsImage(ss[MainSession])
    /\ ss[MainSession].prompt # EmptyStr

\* the weight -1 items of a request
NegativeItems(request) ==
    {j \in 1..Len(request.text_prompts) : request.text_prompts[j].weight = -1}

\* C5: every request POSTed carries the trimmed negative text, character for
\* character, as its one weight -1 item when that text is non-empty, and no
\* weight -1 item when it is empty.
C5_NegativeSentVerbatim ==
    \A s \in Sessions : \A i \in 1..Len(run[s].posts) :
        LET request == run[s].posts[i]
            negative == Strip(ss[s].negative)
        IN  IF negative # EmptyStr
            THEN /\ Cardinality(NegativeItems(request)) = 1
                 /\ \A j \in NegativeItems(request) :
                        request.text_prompts[j].text = negative
            ELSE NegativeItems(request) = {}

\* C6: with STABILITY_API_KEY unset or empty, every call of
\* generate_with_stability returns a failure and POSTs nothing.
C6_NoCredentialNoNetwork ==
    (env = PyNone \/ env = Some(EmptyStr))
        => \A s \in Sessions :
              run[s].called
                 => run[s].posts = <<>> /\ run[s].ret = PyNone /\ run[s].raised = NoException

\* C7: no exception leaves generate_with_stability: every run that called it
\* completed normally (stated for a configured key and a requests whose JSON
\* errors are RequestExceptions, which line 98 catches: the violation needs
\* neither an unset key nor an older requests).
C7_NoExceptionEscapes ==
    \A s \in Sessions :
        (Configured /\ run[s].called /\ run[s].lib)
            => run[s].raised = NoException /\ run[s].status = "completed"

\* the prompt as section 4.1 builds it, segment by segment
ExpectedPrompt(st) ==
    (IF st.quality # EmptyStr THEN st.quality \o Separator ELSE EmptyStr)
    \o st.style \o StyleSuffix
    \o Separator \o Strip(st.keywords)
    \o (IF st.lighting # LightingNone
        THEN Separator \o st.lighting \o LightingSuffix ELSE EmptyStr)
    \o (IF Strip(st.artist) # EmptyStr
        THEN Separator \o ArtistPrefix \o Strip(st.artist) ELSE EmptyStr)

ExamplePrompt == <<"H", "i", "g", "h", ",", " ", "R", "e", "a", "l", "i", "s", "t", "i", "c", " ", "s", "t", "y", "l", "e", ",", " ", "l", "i", "o", "n", ",", " ", "C", "i", "n", "e", "m", "a", "t", "i", "c", " ", "l", "i", "g", "h", "t", "i", "n", "g", ",", " ", "i", "n", " ", "t", "h", "e", " ", "s", "t", "y", "l", "e", " ", "o", "f", " ", "V", "a", "n", " ", "G", "o", "g", "h">>

IsExample(st) ==
    /\ st.keywords = KwLion
    /\ st.style = Realistic
    /\ st.quality = High
    /\ st.lighting = Cinematic
    /\ st.artist = ArtistVanGogh

\* C8: the prompt a submission stores is quality, "<style> style", the trimmed
\* keywords, "<lighting> lighting" unless lighting is None, and "in the style
\* of <artist>" unless the trimmed artist is empty, in this order and joined by
\* ", "; for lion / Realistic / High / Cinematic / Van Gogh it is the example.
C8_PromptSegmentsInOrder ==
    \A s \in Sessions :
        (Submitted(s) /\ run[s].called)
            => /\ ss[s].prompt = ExpectedPrompt(ss[s])
               /\ IsExample(ss[s]) => ss[s].prompt = ExamplePrompt

\* C8's witness: the example was submitted and its prompt stored
C8_Witness ==
    /\ Submitted(MainSession)
    /\ run[MainSession].called
    /\ IsExample(ss[MainSession])
    /\ ss[MainSession].prompt = ExamplePrompt

\* sub occurs in s
Contains(s, sub) ==
    \E i \in 1..(Len(s) - Len(sub) + 1) : SubSeq(s, i, i + Len(sub) - 1) = sub

\* C9: with lighting None the stored prompt has no lighting segment: it is the
\* join of the quality, style, keywords and (if any) artist segments, and
\* " lighting" does not occur in it.
C9_NoLightingSegmentForNone ==
    \A s \in Sessions :
        (Submitted(s) /\ run[s].called /\ ss[s].lighting = LightingNone)
            => /\ ~Contains(ss[s].prompt, LightingSuffix)
               /\ ss[s].prompt =
                     Join(Separator,
                          <<ss[s].quality, ss[s].style \o StyleSuffix, Strip(ss[s].keywords)>>
                          \o (IF Strip(ss[s].artist) # EmptyStr
                              THEN <<ArtistPrefix \o Strip(ss[s].artist)>> ELSE <<>>))

\* C9's witness: a submission with lighting None, another style and quality
\* than the defaults, and an artist
C9_Witness ==
    /\ Submitted(MainSession)
    /\ run[MainSession].called
    /\ ss[MainSession].lighting = LightingNone
    /\ ss[MainSession].style = PixelArt
    /\ ss[MainSession].quality = UltraHD
    /\ ss[MainSession].artist = ArtistVanGogh
    /\ ss[MainSession].prompt # EmptyStr

\* C10: a run makes at most one POST; a run started by an edit makes none, and
\* so does a submission that validation rejects.
C10_AtMostOnePost ==
    \A s \in Sessions :
        /\ Len(run[s].posts) <= 1
        /\ run[s].event = "edit" => run[s].posts = <<>>
        /\ run[s].status = "stopped" => run[s].posts = <<>>

\* C10's witness: a submission whose one POST failed
C10_Witness ==
    /\ CallFailed(MainSession)
    /\ Len(run[MainSession].posts) = 1

\* the values the eight widgets hold: what the most recent edit of each gave it
WidgetValues(st) ==
    [keywords |-> st.keywords_input, style |-> st.style_select,
     quality |-> st.quality_slider, lighting |-> st.lighting_radio,
     artist |-> st.artist_input, negative |-> st.negative_input,
     width |-> st.width_slider, height |-> st.height_slider]

\* C11: a submission validates, composes and sends the values the most recent
\* edit of each widget wrote (the defaults where there was none): it calls the
\* provider exactly when the widget's trimmed keywords are non-empty, the
\* stored prompt pair is generate_prompt of the widgets' values, and the
\* request carries that prompt and the sliders' width and height.
C11_SubmissionUsesLatestEdits ==
    \A s \in Sessions :
        Submitted(s) =>
            LET w == WidgetValues(ss[s])
                pair == generate_prompt(Strip(w.keywords), w.style, w.quality, w.lighting,
                                        Strip(w.artist), Strip(w.negative))
            IN  /\ run[s].called <=> Strip(w.keywords) # EmptyStr
                /\ run[s].called =>
                      /\ ss[s].prompt = pair.prompt
                      /\ ss[s].negative_prompt = pair.negative_prompt
                /\ \A i \in 1..Len(run[s].posts) :
                      /\ run[s].posts[i].text_prompts[1].text = pair.prompt
                      /\ run[s].posts[i].width = w.width
                      /\ run[s].posts[i].height = w.height

\* C11's witness: the keywords were edited twice (nothing else was) and the
\* submission sent the second value
C11_Witness ==
    /\ Submitted(MainSession)
    /\ run[MainSession].posts # <<>>
    /\ nEdits[MainSession] = 2
    /\ WidgetValues(ss[MainSession]) =
          [WidgetValues(InitialSessionState) EXCEPT !.keywords = KwPaddedCat]

\* C12: width and height are on the sliders' grid and style, quality and
\* lighting are options of their widgets, in every state.
C12_LiveFieldsInDomain ==
    \A s \in Sessions :
        /\ ss[s].width \in SliderMin..SliderMax
        /\ (ss[s].width - SliderMin) % SliderStep = 0
        /\ ss[s].height \in SliderMin..SliderMax
        /\ (ss[s].height - SliderMin) % SliderStep = 0
        /\ ss[s].style \in StyleOptions
        /\ ss[s].quality \in QualityOptions
        /\ ss[s].lighting \in LightingOptions

\* C12's witness: edited sliders and a submission
C12_Witness ==
    /\ Submitted(MainSession)
    /\ ss[MainSession].width = SliderMax
    /\ ss[MainSession].height = DefaultSize + SliderStep

LiveFields ==
    {"keywords", "style", "quality", "lighting", "artist", "negative", "width", "height"}

WidgetKey(field) ==
    CASE field = "keywords" -> "keywords_input"
      [] field = "style" -> "style_select"
      [] field = "quality" -> "quality_slider"
      [] field = "lighting" -> "lighting_radio"
      [] field = "artist" -> "artist_input"
      [] field = "negative" -> "negative_input"
      [] field = "width" -> "width_slider"
      [] field = "height" -> "height_slider"

\* the step is an event of session s
Acted(s) == nEdits'[s] # nEdits[s] \/ nSubmits'[s] # nSubmits[s]

\* C13: an edit event leaves prompt, negative_prompt, generated_image and
\* generated as they were and changes exactly one live field, the one of the
\* widget that changed, to that widget's value; the result fields change only
\* in a submission.
C13_EditWritesOnlyItsField ==
    [][\A s \in Sessions :
          /\ nEdits'[s] # nEdits[s] =>
                /\ ResultFields(ss'[s]) = ResultFields(ss[s])
                /\ Cardinality({f \in LiveFields : ss'[s][f] # ss[s][f]}) = 1
                /\ \A f \in LiveFields :
                      ss'[s][f] # ss[s][f] =>
                         /\ ss'[s][WidgetKey(f)] # ss[s][WidgetKey(f)]
                         /\ ss'[s][f] = ss'[s][WidgetKey(f)]
          /\ ResultFields(ss'[s]) # ResultFields(ss[s]) => nSubmits'[s] # nSubmits[s]]_vars

\* C13's witness: an edit after a successful submission
C13_Witness ==
    /\ run[MainSession].event = "edit"
    /\ ShowsImage(ss[MainSession])
    /\ ss[MainSession].artist = ArtistVanGogh

(***************************************************************************)
(* IsoSpec: two sessions of one process, each editing its keywords and     *)
(* width and submitting, in any interleaving.                              *)
(***************************************************************************)
IsoInit ==
    /\ ss = [s \in Sessions |-> InitialSessionState]
    /\ env = Some(KeySecret)
    /\ run = [s \in Sessions |-> NoRun]
    /\ origin = [s \in Sessions |-> [prompt |-> 0, image |-> 0]]
    /\ nEdits = [s \in Sessions |-> 0]
    /\ nSubmits = [s \in Sessions |-> 0]

IsoNext ==
    \E s \in Sessions :
        \/ \E v \in {EmptyStr, KwLion} : Edit(s, "keywords_input", "keywords", v)
        \/ \E v \in WidthInputs : Edit(s, "width_slider", "width", v)
        \/ SubmitWith(s, OkImage(Img1), TRUE)

IsoSpec == IsoInit /\ [][IsoNext]_vars

\* C14: a session's fields (live and result) change only in a step that is an
\* event of that session: never in an edit or a submission of the other one.
C14_SessionsIsolated ==
    [][\A s \in Sessions :
          /\ ss'[s] # ss[s] => Acted(s)
          /\ \A t \in Sessions \ {s} : Acted(t) => ss'[s] = ss[s]]_vars

\* C14's witness: both sessions have edited and submitted, with different results
C14_Witness ==
    /\ ShowsImage(ss["s1"])
    /\ ss["s1"].keywords = KwLion
    /\ ss["s2"].width = SliderMax
    /\ ss["s2"].keywords = EmptyStr
    /\ run["s2"].status = "stopped"
    /\ ~ShowsImage(ss["s2"])

\* the most recent run of s POSTed and was answered 200 with a first artifact
\* that has a base64 field
ImageAnswered(r) ==
    /\ r.event = "submit"
    /\ r.posts # <<>>
    /\ r.resp.kind = "http"
    /\ r.resp.status = StatusOk
    /\ r.resp.isJson /\ r.resp.isObject /\ r.resp.hasArtifacts
    /\ r.resp.nArtifacts > 0 /\ r.resp.hasBase64

\* C15: after a submission answered 200 with an image payload, empty or not,
\* generated is True, generated_image is the payload and the prompt pair is
\* generate_prompt of the live fields (stated for a configured key).
C15_AnyPayloadStored ==
    \A s \in Sessions :
        (Configured /\ ImageAnswered(run[s]))
            => /\ ss[s].generated
               /\ ss[s].generated_image = Some(run[s].resp.base64)
               /\ ss[s].prompt = ComposeFrom(ss[s]).prompt
               /\ ss[s].negative_prompt = ComposeFrom(ss[s]).negative_prompt

\* C16: a POST answered with a status other than 200 makes
\* generate_with_stability return None after that one POST, with the error
\* shown being the JSON body's "message" when it has one and the body's text
\* otherwise.
C16_ErrorMessageOfNon200 ==
    \A s \in Sessions :
        (run[s].posts # <<>> /\ run[s].resp.kind = "http" /\ run[s].resp.status # StatusOk)
            => /\ run[s].ret = PyNone
               /\ run[s].raised = NoException
               /\ Len(run[s].posts) = 1
               /\ run[s].errors =
                     <<MsgApiError \o
                         (IF run[s].resp.isJson /\ run[s].resp.hasMessage
                          THEN run[s].resp.message ELSE run[s].resp.text)>>

\* C16's witness: a non-200 answer with a "message"
C16_Witness ==
    /\ run[MainSession].resp = ErrWithMessage
    /\ run[MainSession].errors = <<MsgApiError \o ProviderMessage>>

====
